---- MODULE Spec2Model ----
(***************************************************************************)
(* A model of Conversational_proposal.py: the Streamlit script that        *)
(* generates a draft proposal, asks for missing lead details one question  *)
(* at a time, lets the user review them and combines the result.           *)
(*                                                                         *)
(* Streamlit re-executes the whole script on every user interaction.  A    *)
(* script run is modelled as a sequence of steps ordered by pc; the user   *)
(* acts only when the script is idle.  Python dicts are functions from     *)
(* string keys to values, lists are sequences, None is the value None.     *)
(***************************************************************************)
EXTENDS Integers, Sequences, FiniteSets, TLC

VARIABLES
    chat_history,         \* st.session_state.chat_history
    asked_questions,      \* st.session_state.asked_questions
    collected_details,    \* st.session_state.collected_details
    response,             \* st.session_state.response (the draft proposal)
    final_response,       \* st.session_state.final_response
    missing_keys,         \* st.session_state.missing_keys
    show_final_response,  \* st.session_state.show_final_response
    user_input,           \* the requirements text area
    button,               \* the button whose click started the current run
    pc,                   \* position of the script run ("idle": waiting for the user)
    phase,                \* what the last completed run rendered
    pending,              \* the field whose question and Submit button are rendered
    final_shown,          \* the "Final Combined Response" panel is rendered
    call,                 \* the external call of the step just taken, if any
    typed,                \* what the user typed into the pending question's input
    confirmed             \* history: "Confirm Details" was handled in this session

session == <<chat_history, asked_questions, collected_details, response,
             final_response, missing_keys, show_final_response>>

vars == <<chat_history, asked_questions, collected_details, response,
          final_response, missing_keys, show_final_response, user_input,
          button, pc, phase, pending, final_shown, call, typed, confirmed>>

-----------------------------------------------------------------------------
(* Python values *)

None == [None |-> TRUE]

EmptyDict == <<>>

Get(d, k, default) == IF k \in DOMAIN d THEN d[k] ELSE default

\* dict.update / {**d, **e}: the right side wins on a key collision
Update(d, e) ==
    [k \in DOMAIN d \cup DOMAIN e |-> IF k \in DOMAIN e THEN e[k] ELSE d[k]]

\* d[k] = v
Put(d, k, v) == [x \in DOMAIN d \cup {k} |-> IF x = k THEN v ELSE d[x]]

\* Python truthiness of a value that is None or a dict
Truthy(d) == d # None /\ DOMAIN d # {}

-----------------------------------------------------------------------------
(* The registry and the keywords *)

REQUIRED_LEAD_DETAILS ==
    [k \in {"Annual Revenue", "Industry", "Entity Type", "Publicly Traded",
            "Primary Accounting Software", "Months to Clean-Up",
            "Year to Be Filed", "States to File Taxes"} |->
       CASE k = "Annual Revenue" -> "What is the approximate annual revenue of your business?"
         [] k = "Industry" -> "Which industry does your business operate in?"
         [] k = "Entity Type" -> "What is the entity type of your business (e.g., LLC, Corporation)?"
         [] k = "Publicly Traded" -> "Is your business publicly traded or privately held?"
         [] k = "Primary Accounting Software" -> "What is the primary accounting software your business uses (e.g., QuickBooks, Xero)?"
         [] k = "Months to Clean-Up" -> "How many months of bookkeeping clean-up are needed?"
         [] k = "Year to Be Filed" -> "Which financial year do you want to file taxes for?"
         [] k = "States to File Taxes" -> "Which states do you need to file taxes in?"]

(* Texts.  A text is a sequence of characters; a character is a record
   [ch, v].  Ordinary characters have v = EmptyDict.  The character
   "members" stands for the serialized members of one JSON object (what is
   written between its braces) and carries in v the dict they denote. *)

Ch(c) == [ch |-> c, v |-> EmptyDict]

Str(s) == [i \in 1..Len(s) |-> Ch(s[i])]

Members(d) == [ch |-> "members", v |-> d]

TAX_KEYWORDS ==
    << Str(<<"t","a","x">>),
       Str(<<"f","i","l","i","n","g">>),
       Str(<<"t","a","x"," ","p","r","e","p","a","r","a","t","i","o","n">>),
       Str(<<"t","a","x"," ","f","i","l","i","n","g">>) >>

\* str.lower: the lower-case letter of each upper-case letter
Lowercase ==
    "A" :> "a" @@ "B" :> "b" @@ "C" :> "c" @@ "D" :> "d" @@ "E" :> "e" @@ "F" :> "f"
    @@ "G" :> "g" @@ "H" :> "h" @@ "I" :> "i" @@ "J" :> "j" @@ "K" :> "k" @@ "L" :> "l"
    @@ "M" :> "m" @@ "N" :> "n" @@ "O" :> "o" @@ "P" :> "p" @@ "Q" :> "q" @@ "R" :> "r"
    @@ "S" :> "s" @@ "T" :> "t" @@ "U" :> "u" @@ "V" :> "v" @@ "W" :> "w" @@ "X" :> "x"
    @@ "Y" :> "y" @@ "Z" :> "z"

\* str.lower on one character
LowerChar(c) ==
    IF c.ch \in DOMAIN Lowercase THEN [c EXCEPT !.ch = Lowercase[@]] ELSE c

Lower(s) == [i \in 1..Len(s) |-> LowerChar(s[i])]

\* kw in s
Contains(s, kw) ==
    \E i \in 0..(Len(s) - Len(kw)) : SubSeq(s, i + 1, i + Len(kw)) = kw

\* is_tax_related without the call of lower()
is_tax_related_case_sensitive(text) ==
    \E n \in 1..Len(TAX_KEYWORDS) : Contains(text, TAX_KEYWORDS[n])

is_tax_related(text) ==
    LET lowered == Lower(text) IN
    \E n \in 1..Len(TAX_KEYWORDS) : Contains(lowered, TAX_KEYWORDS[n])

IsSpace(c) == c.ch = " "

RECURSIVE LStrip(_)
LStrip(s) == IF s # <<>> /\ IsSpace(Head(s)) THEN LStrip(Tail(s)) ELSE s

RECURSIVE RStrip(_)
RStrip(s) ==
    IF s # <<>> /\ IsSpace(s[Len(s)]) THEN RStrip(SubSeq(s, 1, Len(s) - 1)) ELSE s

\* str.strip
Strip(s) == RStrip(LStrip(s))

-----------------------------------------------------------------------------
(* json.loads and the two model-calling functions, as functions of what
   bedrock_client.invoke_model does: it raises, or returns a body text. *)

JSONDecodeError == [JSONDecodeError |-> TRUE]

\* json.loads(s): the texts it accepts here are one JSON object, with
\* whitespace allowed around it; anything else is a JSONDecodeError.
json_loads(s) ==
    LET t == Strip(s) IN
    IF Len(t) = 2 /\ t[1].ch = "{" /\ t[2].ch = "}" THEN EmptyDict
    ELSE IF Len(t) = 3 /\ t[1].ch = "{" /\ t[2].ch = "members" /\ t[3].ch = "}"
         THEN t[2].v
    ELSE JSONDecodeError

\* json.dumps of a dict
json_dumps(d) ==
    IF DOMAIN d = {} THEN Str(<<"{", "}">>) ELSE <<Ch("{"), Members(d), Ch("}")>>

\* content.find("{"): the 0-based index of the first "{", -1 when there is none
Find(s) ==
    IF \E i \in 1..Len(s) : s[i].ch = "{"
    THEN (CHOOSE i \in 1..Len(s) :
            s[i].ch = "{" /\ \A j \in 1..(i - 1) : s[j].ch # "{") - 1
    ELSE -1

\* An f-string message is the sequence of its parts.
Error(msg) == [error |-> msg]

\* What invoke_model does: it raises, or returns a response with a body.
\* The label says what the body was made to be; the code never reads it.
Raised == [raises |-> TRUE, body |-> <<>>, label |-> "transport exception"]

Returned(body, label) == [raises |-> FALSE, body |-> body, label |-> label]

\* full_response.get("content", [])[0].get("text", ""): the text, or
\* IndexError when the list is empty
HasContent(full) == Get(full, "content", <<>>) # <<>>

\* analyze_details_with_bedrock without its empty-body check
analyze_details_unchecked_body(outcome) ==
    IF outcome.raises
    THEN Error(<<"Exception occurred: ", "transport">>)
    ELSE LET full_response == json_loads(outcome.body) IN
    IF full_response = JSONDecodeError
    THEN Error(<<"JSON parsing error: ", "body">>)
    ELSE IF ~HasContent(full_response)
    THEN Error(<<"Exception occurred: ", "list index out of range">>)
    ELSE LET content == Get(full_response["content"][1], "text", <<>>)
             start_index == Find(content) IN
    IF start_index = -1
    THEN Error(<<"No JSON object found in model response">>)
    ELSE LET result_json == json_loads(SubSeq(content, start_index + 1, Len(content))) IN
    IF result_json = JSONDecodeError
    THEN Error(<<"JSON parsing error: ", "content">>)
    ELSE result_json

analyze_details_with_bedrock(outcome) ==
    IF outcome.raises
    THEN Error(<<"Exception occurred: ", "transport">>)
    ELSE LET response_body == outcome.body IN
    IF response_body = <<>>
    THEN Error(<<"Empty response from the model">>)
    ELSE LET full_response == json_loads(response_body) IN
    IF full_response = JSONDecodeError
    THEN Error(<<"JSON parsing error: ", "body">>)
    ELSE IF ~HasContent(full_response)
    THEN Error(<<"Exception occurred: ", "list index out of range">>)
    ELSE LET content == Get(full_response["content"][1], "text", <<>>)
             start_index == Find(content) IN
    IF start_index = -1
    THEN Error(<<"No JSON object found in model response">>)
    ELSE LET result_json == json_loads(SubSeq(content, start_index + 1, Len(content))) IN
    IF result_json = JSONDecodeError
    THEN Error(<<"JSON parsing error: ", "content">>)
    ELSE result_json

generate_proposal(outcome) ==
    IF outcome.raises
    THEN Error(<<"Exception occurred: ", "transport">>)
    ELSE LET response_body == outcome.body IN
    IF response_body = <<>> \/ Strip(response_body) = <<>>
    THEN Error(<<"Empty or invalid response from the model">>)
    ELSE LET raw_content == json_loads(response_body) IN
    IF raw_content = JSONDecodeError
    THEN Error(<<"Exception occurred: ", "body">>)
    ELSE IF "content" \notin DOMAIN raw_content \/ raw_content["content"] = <<>>
           \/ "text" \notin DOMAIN raw_content["content"][1]
    THEN Error(<<"Exception occurred: ", "content">>)
    ELSE LET content_text == raw_content["content"][1]["text"]
             parsed == json_loads(content_text) IN
    IF parsed = JSONDecodeError
    THEN Error(<<"Exception occurred: ", "content">>)
    ELSE parsed

-----------------------------------------------------------------------------
(* Session-state helpers *)

\* log_chat without the asked_questions check
log_chat_no_dedup(history, asked, sender, message) ==
    [chat_history |-> Append(history, [sender |-> sender, message |-> message]),
     asked_questions |-> IF sender = "Bot" THEN asked \cup {message} ELSE asked]

\* log_chat(sender, message): the new chat_history and asked_questions
log_chat(history, asked, sender, message) ==
    IF sender = "Bot" /\ message \in asked
    THEN [chat_history |-> history, asked_questions |-> asked]
    ELSE [chat_history |-> Append(history, [sender |-> sender, message |-> message]),
          asked_questions |-> IF sender = "Bot" THEN asked \cup {message} ELSE asked]

\* combine_responses with the commented-out merge of collected_details restored
combine_responses_merging(model_response, collected) ==
    LET combined_details ==
          Update(Get(model_response, "provided_details", EmptyDict), collected)
    IN  Put(model_response, "provided_details", combined_details)

\* combine_responses(model_response, collected_details)
combine_responses(model_response, collected) ==
    LET combined_details == Update(EmptyDict, Get(model_response, "provided_details", EmptyDict))
    IN  Put(model_response, "provided_details", combined_details)

\* the unanswered keys taken from the end of missing_keys
unanswered_keys_reversed(missing, collected) ==
    LET kept == SelectSeq(missing, LAMBDA key : key \notin DOMAIN collected)
    IN  [i \in 1..Len(kept) |-> kept[Len(kept) + 1 - i]]

\* the missing keys without the test on collected_details
unanswered_keys_unfiltered(missing, collected) == missing

\* [key for key in missing_keys if key not in collected_details]
unanswered_keys(missing, collected) ==
    SelectSeq(missing, LAMBDA key : key \notin DOMAIN collected)

\* the Review dict with the draft's value winning on a key of both
ReviewDetails_draft_wins(model_response, collected) ==
    Update(collected, Get(model_response, "provided_details", EmptyDict))

\* {**response.get("provided_details", {}), **collected_details}
ReviewDetails(model_response, collected) ==
    Update(Get(model_response, "provided_details", EmptyDict), collected)

-----------------------------------------------------------------------------
(* What the environment can supply: the model's replies and the user's input *)

MaxMissing == 2

\* field names the Detail Analyzer may name; the last one is not in the registry
AnalyzerFields == {"Annual Revenue", "Industry", "Business Name"}

\* lists of distinct field names, in any order
MissingLists ==
    {m \in UNION {[1..n -> AnalyzerFields] : n \in 0..MaxMissing} :
       \A i, j \in 1..Len(m) : m[i] = m[j] => i = j}

\* the analyzer extracts nothing, or one value
ProvidedMaps == {EmptyDict, [Industry |-> "Retail"]}

\* the JSON objects the analyzer's model may write: with and without the
\* "missing_details" key (the prompt only asks for "provided_details")
AnalysisObjects ==
    {[provided_details |-> p, missing_details |-> m] : p \in ProvidedMaps, m \in MissingLists}
    \cup {[provided_details |-> p] : p \in ProvidedMaps}

\* the JSON objects the generator's model may write
Drafts ==
    { [description |-> "Tax filing for an LLC"],
      [description |-> "Bookkeeping clean up", provided_details |-> [Industry |-> "Retail"]] }

Prose == Str(<<"S","u","r","e","!"," ">>)

Envelope(text) == json_dumps([content |-> <<[text |-> text]>>])

FailedOutcomes ==
    { Raised,
      Returned(<<>>, "empty body"),
      Returned(Envelope(Prose), "no JSON object"),
      Returned(Envelope(Str(<<"{","o","o","p","s">>)), "malformed JSON") }

ObjectOutcomes(objects) ==
    {Returned(Envelope(json_dumps(d)), "JSON object") : d \in objects}

GenOutcomes == FailedOutcomes \cup ObjectOutcomes(Drafts)

AnalysisOutcomes == FailedOutcomes \cup ObjectOutcomes(AnalysisObjects)

UserTexts == { Str(<<"T","a","x">>), Str(<<"p","a","y">>) }

\* what the user types into a text input: nothing, or a value
Answers == {"", "Consulting"}

\* the Review inputs the user retyped, with what they typed
Edits == UNION {[S -> {"Consulting"}] : S \in SUBSET AnalyzerFields}

NoKey == "<none>"

NoButton == <<>>

GenerateButton == <<"Generate Proposal">>

SubmitButton(key) == <<"submit", key>>

ConfirmButton == <<"Confirm Details">>

NoError == <<>>

NoCall == [function |-> "none", outcome |-> "none", failed |-> None]

\* the record of an external call: which function, what invoke_model did,
\* and the result when it carries an error key (None when it does not)
Called(function, outcome, result) ==
    [function |-> function, outcome |-> outcome.label,
     failed |-> IF "error" \in DOMAIN result THEN result ELSE None]

-----------------------------------------------------------------------------
(* The script *)

Init ==
    /\ chat_history = <<>>
    /\ asked_questions = {}
    /\ collected_details = EmptyDict
    /\ response = None
    /\ final_response = None
    /\ missing_keys = <<>>
    /\ show_final_response = FALSE
    /\ user_input = <<>>
    /\ button = NoButton
    /\ pc = "idle"
    /\ phase = "Start"
    /\ pending = NoKey
    /\ final_shown = FALSE
    /\ call = NoCall
    /\ typed = ""
    /\ confirmed = FALSE

\* A new script run starts at the top with a cleared page; the "Generate
\* Proposal" block is entered only by a click on that button.
StartRun(clicked, value) ==
    /\ button' = clicked
    /\ typed' = value
    /\ pc' = IF clicked = GenerateButton THEN "generate" ELSE "gate"
    /\ phase' = "Start"
    /\ pending' = NoKey
    /\ final_shown' = FALSE
    /\ call' = NoCall

\* The run reaches the end of the script, rendering the final panel on the way.
EndRun(rendered) ==
    /\ pc' = "idle"
    /\ button' = NoButton
    /\ typed' = ""
    /\ phase' = rendered
    /\ final_shown' = show_final_response'

\* The user changes the requirements text.
EnterRequirements(text) ==
    /\ pc = "idle"
    /\ text # user_input
    /\ user_input' = text
    /\ StartRun(NoButton, "")
    /\ UNCHANGED <<session, confirmed>>

\* The user changes another widget (types into a field without submitting).
EditWidget ==
    /\ pc = "idle"
    /\ StartRun(NoButton, "")
    /\ UNCHANGED <<session, user_input, confirmed>>

ClickGenerate ==
    /\ pc = "idle"
    /\ StartRun(GenerateButton, "")
    /\ UNCHANGED <<session, user_input, confirmed>>

\* The user types a value (or nothing) into the question's input and clicks Submit.
ClickSubmit(value) ==
    /\ pc = "idle"
    /\ phase = "Collecting"
    /\ StartRun(SubmitButton(pending), value)
    /\ UNCHANGED <<session, user_input, confirmed>>

ClickConfirm ==
    /\ pc = "idle"
    /\ phase = "Review"
    /\ StartRun(ConfirmButton, "")
    /\ UNCHANGED <<session, user_input, confirmed>>

\* the Generate Proposal block storing the result without looking for an error key
GenerateProposal_unchecked(outcome) ==
    /\ pc = "generate"
    /\ Strip(user_input) # <<>>
    /\ LET result == generate_proposal(outcome) IN
       /\ call' = Called("generate_proposal", outcome, result)
       /\ response' = result
    /\ pc' = "gate"
    /\ UNCHANGED <<chat_history, asked_questions, collected_details, final_response,
                   missing_keys, show_final_response, user_input, button, phase,
                   pending, final_shown, typed, confirmed>>

\* if st.button("Generate Proposal"): if user_input.strip(): ...
GenerateProposal(outcome) ==
    /\ pc = "generate"
    /\ Strip(user_input) # <<>>
    /\ LET result == generate_proposal(outcome) IN
       /\ call' = Called("generate_proposal", outcome, result)
       /\ IF "error" \in DOMAIN result
          THEN response' = response
          ELSE response' = result
    /\ pc' = "gate"
    /\ UNCHANGED <<chat_history, asked_questions, collected_details, final_response,
                   missing_keys, show_final_response, user_input, button, phase,
                   pending, final_shown, typed, confirmed>>

\* the button was clicked and the text is blank
BlankRequirements ==
    /\ pc = "generate"
    /\ Strip(user_input) = <<>>
    /\ pc' = "gate"
    /\ UNCHANGED <<session, user_input, button, phase, pending, final_shown, call,
                   typed, confirmed>>

\* if st.session_state.response: is false
NoDraft ==
    /\ pc = "gate"
    /\ ~Truthy(response)
    /\ call' = NoCall
    /\ UNCHANGED <<session, user_input, pending, confirmed>>
    /\ EndRun("NoDraft")

\* the not-tax branch handing the draft to combine_responses first
NotTaxRelated_combining ==
    /\ pc = "gate"
    /\ Truthy(response)
    /\ ~is_tax_related(user_input)
    /\ final_response' = combine_responses(response, collected_details)
    /\ show_final_response' = TRUE
    /\ UNCHANGED <<chat_history, asked_questions, collected_details, response,
                   missing_keys, user_input, pending, confirmed>>
    /\ call' = NoCall
    /\ EndRun("NotRelevant")

\* else: "This proposal is not related to tax."
NotTaxRelated ==
    /\ pc = "gate"
    /\ Truthy(response)
    /\ ~is_tax_related(user_input)
    /\ final_response' = response
    /\ show_final_response' = TRUE
    /\ UNCHANGED <<chat_history, asked_questions, collected_details, response,
                   missing_keys, user_input, pending, confirmed>>
    /\ call' = NoCall
    /\ EndRun("NotRelevant")

\* if is_tax_related(user_input): analysis_result = analyze_details_with_bedrock(...)
AnalyzeDetails(outcome) ==
    /\ pc = "gate"
    /\ Truthy(response)
    /\ is_tax_related(user_input)
    /\ LET analysis_result == analyze_details_with_bedrock(outcome) IN
       /\ call' = Called("analyze_details_with_bedrock", outcome, analysis_result)
       /\ IF Get(analysis_result, "error", <<>>) # <<>>
          THEN /\ UNCHANGED <<session, pending>>
               /\ EndRun("Halted")
          ELSE /\ missing_keys' = Get(analysis_result, "missing_details", <<>>)
               /\ collected_details' =
                    Update(collected_details, Get(analysis_result, "provided_details", EmptyDict))
               /\ UNCHANGED <<chat_history, asked_questions, response, final_response,
                              show_final_response, pending>>
               /\ IF missing_keys' # <<>>
                  THEN pc' = "collect" /\ UNCHANGED <<button, phase, final_shown, typed>>
                  ELSE EndRun("NoMissing")
    /\ UNCHANGED <<user_input, confirmed>>

\* collect_missing_details_interactive(missing_keys), up to its buttons
CollectMissingDetails ==
    /\ pc = "collect"
    /\ LET unanswered == unanswered_keys(missing_keys, collected_details) IN
       IF unanswered # <<>>
       THEN LET key == unanswered[1] IN
            IF key \notin DOMAIN REQUIRED_LEAD_DETAILS
            THEN \* KeyError: the run stops here
                 /\ pc' = "idle"
                 /\ button' = NoButton
                 /\ typed' = ""
                 /\ phase' = "Crashed"
                 /\ UNCHANGED <<session, pending, final_shown>>
            ELSE LET logged == log_chat(chat_history, asked_questions, "Bot",
                                        REQUIRED_LEAD_DETAILS[key]) IN
                 /\ chat_history' = logged.chat_history
                 /\ asked_questions' = logged.asked_questions
                 /\ pending' = key
                 /\ UNCHANGED <<collected_details, response, final_response,
                                missing_keys, show_final_response>>
                 /\ IF button = SubmitButton(key)
                    THEN pc' = "submit" /\ UNCHANGED <<button, phase, final_shown, typed>>
                    ELSE EndRun("Collecting")
       ELSE IF DOMAIN collected_details # {}
       THEN /\ UNCHANGED <<session, pending>>
            /\ IF button = ConfirmButton
               THEN pc' = "confirm" /\ UNCHANGED <<button, phase, final_shown, typed>>
               ELSE EndRun("Review")
       ELSE /\ final_response' = combine_responses(response, collected_details)
            /\ UNCHANGED <<chat_history, asked_questions, collected_details, response,
                           missing_keys, show_final_response, pending>>
            /\ EndRun("Completed")
    /\ UNCHANGED <<user_input, call, confirmed>>

\* the Submit handler without its "if value" check
SubmitAnswer_unchecked ==
    /\ pc = "submit"
    /\ LET logged == log_chat(chat_history, asked_questions, "User", typed) IN
       /\ collected_details' = Put(collected_details, pending, typed)
       /\ chat_history' = logged.chat_history
       /\ asked_questions' = logged.asked_questions
       /\ UNCHANGED <<response, final_response, missing_keys, show_final_response>>
       /\ StartRun(NoButton, "")
    /\ UNCHANGED <<user_input, confirmed>>

\* if st.button("Submit"): if value: ...; st.rerun()
\* A rejected blank leaves the page as rendered, the clicked button included.
SubmitAnswer ==
    /\ pc = "submit"
    /\ LET value == typed IN
       IF value # ""
       THEN LET logged == log_chat(chat_history, asked_questions, "User", value) IN
            /\ collected_details' = Put(collected_details, pending, value)
            /\ chat_history' = logged.chat_history
            /\ asked_questions' = logged.asked_questions
            /\ UNCHANGED <<response, final_response, missing_keys, show_final_response>>
            /\ StartRun(NoButton, "")
       ELSE /\ pc' = "idle"
            /\ phase' = "Collecting"
            /\ final_shown' = show_final_response
            /\ UNCHANGED <<session, pending, call, button, typed>>
    /\ UNCHANGED <<user_input, confirmed>>

\* the Review values of the retyped inputs only
EditedDetails_retyped_only(combined_details, edits) ==
    [key \in DOMAIN combined_details \cap DOMAIN edits |-> edits[key]]

\* the values of the Review text inputs: the default, or what the user typed
EditedDetails(combined_details, edits) ==
    [key \in DOMAIN combined_details |->
       IF key \in DOMAIN edits THEN edits[key] ELSE combined_details[key]]

\* the Confirm handler combining without storing the edited details
ConfirmDetails_not_storing(edits) ==
    /\ pc = "confirm"
    /\ LET edited_details ==
             EditedDetails(ReviewDetails(response, collected_details), edits) IN
       /\ collected_details' = collected_details
       /\ final_response' = combine_responses(response, edited_details)
    /\ UNCHANGED <<chat_history, asked_questions, response, missing_keys,
                   show_final_response, user_input, pending, call>>
    /\ confirmed' = TRUE
    /\ EndRun("Finalized")

\* the Confirm handler writing the combined response over the draft
ConfirmDetails_overwriting_draft(edits) ==
    /\ pc = "confirm"
    /\ LET edited_details ==
             EditedDetails(ReviewDetails(response, collected_details), edits) IN
       /\ collected_details' = edited_details
       /\ final_response' = combine_responses(response, edited_details)
       /\ response' = combine_responses(response, edited_details)
    /\ UNCHANGED <<chat_history, asked_questions, missing_keys,
                   show_final_response, user_input, pending, call>>
    /\ confirmed' = TRUE
    /\ EndRun("Finalized")

\* if st.button("Confirm Details"): ...  The two model calls that follow only
\* render their results.
ConfirmDetails(edits) ==
    /\ pc = "confirm"
    /\ LET edited_details ==
             EditedDetails(ReviewDetails(response, collected_details), edits) IN
       /\ collected_details' = edited_details
       /\ final_response' = combine_responses(response, edited_details)
    /\ UNCHANGED <<chat_history, asked_questions, response, missing_keys,
                   show_final_response, user_input, pending, call>>
    /\ confirmed' = TRUE
    /\ EndRun("Finalized")

Next ==
    \/ \E text \in UserTexts : EnterRequirements(text)
    \/ EditWidget
    \/ ClickGenerate
    \/ \E value \in Answers : ClickSubmit(value)
    \/ ClickConfirm
    \/ \E outcome \in GenOutcomes : GenerateProposal(outcome)
    \/ BlankRequirements
    \/ NoDraft
    \/ NotTaxRelated
    \/ \E outcome \in AnalysisOutcomes : AnalyzeDetails(outcome)
    \/ CollectMissingDetails
    \/ SubmitAnswer
    \/ \E edits \in Edits : ConfirmDetails(edits)

Spec == Init /\ [][Next]_vars

-----------------------------------------------------------------------------
(* The question-and-answer scenario: once the analyzer has reported a
   non-empty missing_details list it reports the same list, and no
   provided_details, on every later run; the user keeps the requirements
   text while a question is pending and does not get to Confirm. *)

SameAnalysis ==
    /\ collected_details' = collected_details
    /\ missing_keys # <<>> => (call'.failed = None /\ missing_keys' = missing_keys)

AnswerNext ==
    \/ \E text \in UserTexts : phase # "Collecting" /\ EnterRequirements(text)
    \/ EditWidget
    \/ ClickGenerate
    \/ \E value \in Answers : ClickSubmit(value)
    \/ \E outcome \in GenOutcomes : GenerateProposal(outcome)
    \/ BlankRequirements
    \/ NoDraft
    \/ NotTaxRelated
    \/ \E outcome \in AnalysisOutcomes : AnalyzeDetails(outcome) /\ SameAnalysis
    \/ CollectMissingDetails
    \/ SubmitAnswer

\* A started run goes on to its end, step by step; a user who is asked a
\* question eventually submits a non-blank answer to it.
AnswerSpec ==
    /\ Init
    /\ [][AnswerNext]_vars
    /\ WF_vars(\E outcome \in GenOutcomes : GenerateProposal(outcome))
    /\ WF_vars(BlankRequirements)
    /\ WF_vars(NoDraft)
    /\ WF_vars(NotTaxRelated)
    /\ WF_vars(\E outcome \in AnalysisOutcomes : AnalyzeDetails(outcome))
    /\ WF_vars(CollectMissingDetails)
    /\ WF_vars(SubmitAnswer)
    /\ SF_vars(ClickSubmit("Consulting"))

-----------------------------------------------------------------------------
(* Model replies that put prose before the JSON object.  The runs are those
   of the script up to the first question: the user enters a text, clicks
   Generate Proposal, and the two functions parse what the model wrote. *)

MaxProse == 2

\* characters of a prose prefix: none of them is "{"
ProseChars == {"S", " ", "}"}

\* the prose prefixes, the empty one included
ProseTexts == UNION {[1..n -> {Ch(c) : c \in ProseChars}] : n \in 0..MaxProse}

\* the model writes prose and then the JSON object d
ProseThenObject(prose, d) ==
    Returned(Envelope(prose \o json_dumps(d)),
             IF prose = <<>> THEN "JSON object" ELSE "prose, then a JSON object")

ProseGenOutcomes == {ProseThenObject(prose, d) : prose \in ProseTexts, d \in Drafts}

ProseAnalysisOutcomes ==
    {ProseThenObject(prose, d) : prose \in ProseTexts, d \in AnalysisObjects}

ProseNext ==
    \/ \E text \in UserTexts : EnterRequirements(text)
    \/ ClickGenerate
    \/ \E outcome \in ProseGenOutcomes : GenerateProposal(outcome)
    \/ BlankRequirements
    \/ NoDraft
    \/ NotTaxRelated
    \/ \E outcome \in ProseAnalysisOutcomes : AnalyzeDetails(outcome)
    \/ CollectMissingDetails

ProseSpec == Init /\ [][ProseNext]_vars

-----------------------------------------------------------------------------
(* The relevance gate over many requirement texts.  The user enters one
   text; the runs are those of a session whose model calls succeed and
   whose analysis reports nothing missing. *)

MaxText == 4

RelevanceChars == {"t", "a", "x", "A", "e"}

ExampleTexts ==
    { Str(<<"d","e","t","a","x","i","f","y">>),
      Str(<<"T","A","X">>),
      Str(<<"F","i","l","i","n","g">>),
      Str(<<"f","i","l"," ","i","n","g">>),
      Str(<<"W","e"," ","n","e","e","d"," ","h","e","l","p"," ","w","i","t","h"," ","p","a","y","r","o","l","l"," ","o","n","l","y">>) }

RelevanceTexts ==
    UNION {[1..n -> {Ch(c) : c \in RelevanceChars}] : n \in 0..MaxText}
    \cup ExampleTexts

RelevanceNext ==
    \/ \E text \in RelevanceTexts : user_input = <<>> /\ EnterRequirements(text)
    \/ ClickGenerate
    \/ \E outcome \in ObjectOutcomes({[description |-> "Tax filing for an LLC"]}) :
          GenerateProposal(outcome)
    \/ BlankRequirements
    \/ NoDraft
    \/ NotTaxRelated
    \/ \E outcome \in ObjectOutcomes({[provided_details |-> EmptyDict]}) :
          AnalyzeDetails(outcome)

RelevanceSpec == Init /\ [][RelevanceNext]_vars

-----------------------------------------------------------------------------
(* Properties *)

BotMessages == {i \in 1..Len(chat_history) : chat_history[i].sender = "Bot"}

Question(key) == REQUIRED_LEAD_DETAILS[key]

\* C2: the transcript never holds two Bot entries with the same message
\* text, also when a question is asked again on a later run.
C2_NoRepeatedBotMessage ==
    \A i, j \in BotMessages :
        chat_history[i].message = chat_history[j].message => i = j

\* a run asked again a question that is not the latest Bot entry
C2_QuestionRevisited ==
    /\ pc = "idle"
    /\ phase = "Collecting"
    /\ Len(chat_history) = 2
    /\ chat_history[1] = [sender |-> "Bot", message |-> Question(pending)]
    /\ chat_history[2].sender = "Bot"

C5_NotRelevantSkipsCollection ==
    [][(pc = "gate" /\ Truthy(response) /\ ~is_tax_related(user_input)) =>
          /\ final_response' = response
          /\ call' = NoCall
          /\ collected_details' = collected_details
          /\ chat_history' = chat_history
          /\ asked_questions' = asked_questions
          /\ pc' = "idle"
          /\ pending' = NoKey]_vars

\* a run took the not-tax branch in a session that had collected details
\* for a draft without provided_details
C5_NotRelevantAfterQuestions ==
    /\ pc = "idle"
    /\ phase = "NotRelevant"
    /\ final_response = response
    /\ "provided_details" \notin DOMAIN response
    /\ chat_history # <<>>
    /\ DOMAIN collected_details # {}

EmptyBodyError == Error(<<"Empty response from the model">>)

\* C6 as stated: after an empty body, the result of either function is
\* exactly {error: "Empty response from the model"}.
C6_UniformEmptyBodyError ==
    call.outcome = "empty body" => call.failed = EmptyBodyError

\* C6 as amended: after an empty body analyze_details_with_bedrock returns
\* exactly {error: "Empty response from the model"} and generate_proposal
\* exactly {error: "Empty or invalid response from the model"}; the calling
\* step changes nothing of the session state.
C6_EmptyBodyError ==
    [][(pc \in {"generate", "gate"} /\ call'.outcome = "empty body") =>
          /\ call'.function = "analyze_details_with_bedrock"
                => call'.failed = EmptyBodyError
          /\ call'.function = "generate_proposal"
                => call'.failed = Error(<<"Empty or invalid response from the model">>)
          /\ UNCHANGED session]_vars

\* the analyzer got an empty body in a session with collected details
C6_AnalyzerGotEmptyBody ==
    /\ pc = "idle"
    /\ phase = "Halted"
    /\ call.function = "analyze_details_with_bedrock"
    /\ call.outcome = "empty body"
    /\ DOMAIN collected_details # {}

ExternalFailures ==
    {"transport exception", "empty body", "no JSON object", "malformed JSON"}

\* C7: every failure of the external call comes back from either function
\* as a value with an error key, and the calling step then stops with the
\* draft, collected_details, missing_keys and the transcript unchanged:
\* the Generate Proposal block falls through, the analysis ends the run.
C7_FailuresBecomeErrorValues ==
    [][(pc \in {"generate", "gate"} /\ call'.outcome \in ExternalFailures) =>
          /\ call'.failed # None
          /\ "error" \in DOMAIN call'.failed
          /\ call'.failed["error"] # <<>>
          /\ response' = response
          /\ collected_details' = collected_details
          /\ missing_keys' = missing_keys
          /\ chat_history' = chat_history
          /\ call'.function = "generate_proposal" => pc' = "gate"
          /\ call'.function = "analyze_details_with_bedrock"
                => pc' = "idle" /\ phase' = "Halted"]_vars

\* generate_proposal failed in a session that already had a draft and details
C7_GenerateFailedLate ==
    /\ pc = "gate"
    /\ call.function = "generate_proposal"
    /\ call.outcome = "transport exception"
    /\ response # None
    /\ DOMAIN collected_details # {}
    /\ missing_keys # <<>>

C1_CollectingEnds ==
    (pc = "idle" /\ phase = "Collecting") ~> (phase \in {"Review", "Completed"})

\* the transcript of asking keys in order and getting the answers in collected
Transcript(keys, collected) ==
    [i \in 1..(2 * Len(keys)) |->
       IF i % 2 = 1
       THEN [sender |-> "Bot", message |-> Question(keys[(i + 1) \div 2])]
       ELSE [sender |-> "User", message |-> collected[keys[i \div 2]]]]

\* C4: when the analyzer reports missing_details = [f1..fn] and no
\* provided_details and the user answers every question, Review is reached
\* with the transcript Bot Q(f1), User a1, ..., Bot Q(fn), User an,
\* collected_details holding exactly fi -> ai, and those entries among the
\* editable ones.
C4_AnsweredInOrder ==
    (pc = "idle" /\ phase = "Review") =>
        /\ DOMAIN collected_details = {missing_keys[i] : i \in 1..Len(missing_keys)}
        /\ \A k \in DOMAIN collected_details : collected_details[k] \in Answers \ {""}
        /\ chat_history = Transcript(missing_keys, collected_details)
        /\ \A k \in DOMAIN collected_details :
              /\ k \in DOMAIN ReviewDetails(response, collected_details)
              /\ ReviewDetails(response, collected_details)[k] = collected_details[k]

\* two questions were answered and Review is rendered
C4_TwoAnswersReviewed ==
    /\ pc = "idle"
    /\ phase = "Review"
    /\ Len(missing_keys) = 2
    /\ Len(chat_history) = 4

\* C8: once Confirm Details has been handled, no later run asks a question.
C8_FinalizingIsTerminal ==
    confirmed => phase # "Collecting"

\* C9: when no key is unanswered and nothing was collected,
\* final_response is combine_responses(draft, collected_details).
C9_CompletedWithoutReview ==
    (/\ pc = "idle"
     /\ phase \in {"NoMissing", "Completed"}
     /\ unanswered_keys(missing_keys, collected_details) = <<>>
     /\ DOMAIN collected_details = {})
    => final_response = combine_responses(response, collected_details)

\* C11: when Review is rendered, the editable dict has the keys of the
\* draft's provided_details and of collected_details together; a key of
\* collected_details shows the collected value, any other key the draft's.
C11_ReviewShowsUnion ==
    (pc = "idle" /\ phase = "Review") =>
        LET provided == Get(response, "provided_details", EmptyDict)
            shown == ReviewDetails(response, collected_details)
        IN  /\ DOMAIN shown = DOMAIN provided \cup DOMAIN collected_details
            /\ \A k \in DOMAIN collected_details : shown[k] = collected_details[k]
            /\ \A k \in DOMAIN provided \ DOMAIN collected_details :
                  shown[k] = provided[k]

\* Review is rendered with a key that the draft and collected_details both
\* hold, with different values
C11_ReviewWithCollision ==
    /\ pc = "idle"
    /\ phase = "Review"
    /\ "provided_details" \in DOMAIN response
    /\ \E k \in DOMAIN response["provided_details"] \cap DOMAIN collected_details :
          response["provided_details"][k] # collected_details[k]

\* C12: when the model writes prose without "{" and then a JSON object,
\* generate_proposal and analyze_details_with_bedrock both return the
\* object: the Generate Proposal block stores it as the draft, the analysis
\* takes missing_details and provided_details from it.
C12_ProseThenObjectParsed ==
    [][\A prose \in ProseTexts \ {<<>>} :
          /\ \A d \in Drafts :
                GenerateProposal(ProseThenObject(prose, d)) =>
                    call'.failed = None /\ response' = d
          /\ \A d \in AnalysisObjects :
                AnalyzeDetails(ProseThenObject(prose, d)) =>
                    /\ call'.failed = None
                    /\ missing_keys' = Get(d, "missing_details", <<>>)
                    /\ collected_details' =
                         Update(collected_details, d["provided_details"])]_vars

\* generate_proposal was given prose and then a JSON object, and failed
C12_GeneratorGotProse ==
    /\ pc = "gate"
    /\ call.function = "generate_proposal"
    /\ call.outcome = "prose, then a JSON object"
    /\ call.failed # None

\* C13: no step removes a key from collected_details, changes or removes an
\* entry of the transcript, or removes an element of asked_questions.
C13_GrowOnly ==
    [][/\ DOMAIN collected_details \subseteq DOMAIN collected_details'
       /\ Len(chat_history) <= Len(chat_history')
       /\ SubSeq(chat_history', 1, Len(chat_history)) = chat_history
       /\ asked_questions \subseteq asked_questions']_vars

\* Confirm Details was handled after two questions were answered
C13_ConfirmedAfterAnswers ==
    /\ pc = "idle"
    /\ phase = "Finalized"
    /\ Cardinality(DOMAIN collected_details) >= 2
    /\ Len(chat_history) >= 4

\* the keywords as C14 lists them
ClaimKeywords ==
    { <<"t","a","x">>, <<"f","i","l","i","n","g">>,
      <<"t","a","x"," ","p","r","e","p","a","r","a","t","i","o","n">>,
      <<"t","a","x"," ","f","i","l","i","n","g">> }

\* the lower-cased text has one of the keywords as a substring
HasKeyword(text) ==
    \E kw \in ClaimKeywords : \E i \in 0..(Len(text) - Len(kw)) :
        \A j \in 1..Len(kw) : LowerChar(text[i + j]).ch = kw[j]

\* C14: with a draft in place the gate takes the tax-related branch exactly
\* when the lower-cased text has one of the keywords as a substring, and the
\* not-tax branch otherwise.
C14_RelevantIffKeyword ==
    [][(pc = "gate" /\ Truthy(response)) =>
          /\ HasKeyword(user_input) <=> is_tax_related(user_input)
          /\ HasKeyword(user_input) <=> call'.function = "analyze_details_with_bedrock"
          /\ ~HasKeyword(user_input) <=> phase' = "NotRelevant"]_vars

\* the text "detaxify" was analysed as tax related
C14_DetaxifyAnalysed ==
    /\ pc = "idle"
    /\ user_input = Str(<<"d","e","t","a","x","i","f","y">>)
    /\ call.function = "analyze_details_with_bedrock"
    /\ phase = "NoMissing"

\* C15: the field whose question is rendered is the first element of
\* missing_keys that is not a key of collected_details.
C15_AsksFirstUnanswered ==
    (pc = "idle" /\ phase = "Collecting") =>
        \E i \in 1..Len(missing_keys) :
            /\ pending = missing_keys[i]
            /\ pending \notin DOMAIN collected_details
            /\ \A j \in 1..(i - 1) : missing_keys[j] \in DOMAIN collected_details

\* the second field is asked, the first one being in collected_details
C15_SecondFieldAsked ==
    /\ pc = "idle"
    /\ phase = "Collecting"
    /\ Len(missing_keys) = 2
    /\ missing_keys[1] \in DOMAIN collected_details
    /\ pending = missing_keys[2]

C17_FinalShownAfterSubmission ==
    /\ show_final_response => confirmed
    /\ (pc = "idle" /\ phase \in {"Finalized", "Completed"}) => final_shown

\* Confirm produced final_response and the final panel is not rendered
C17_ConfirmedNotShown ==
    /\ pc = "idle"
    /\ phase = "Finalized"
    /\ final_response # None
    /\ ~show_final_response
    /\ ~final_shown

\* what the user can have supplied for a field
UserValues == (Answers \ {""}) \cup UNION {{e[k] : k \in DOMAIN e} : e \in Edits}

\* C18: the merge of an analysis result leaves every value the user supplied
\* in collected_details under its field.
C18_UserValuesKept ==
    [][pc = "gate" =>
          \A k \in DOMAIN collected_details :
             collected_details[k] \in UserValues =>
                /\ k \in DOMAIN collected_details'
                /\ collected_details'[k] = collected_details[k]]_vars

\* the user's answer for Industry is in the transcript and collected_details
\* holds the analyzer's value
C18_AnswerOverwritten ==
    /\ call.function = "analyze_details_with_bedrock"
    /\ \E i \in 1..(Len(chat_history) - 1) :
          /\ chat_history[i] = [sender |-> "Bot", message |-> Question("Industry")]
          /\ chat_history[i + 1] = [sender |-> "User", message |-> "Consulting"]
    /\ "Industry" \in DOMAIN collected_details
    /\ collected_details["Industry"] = "Retail"

\* C19: a run of collect_missing_details_interactive asks a question of the
\* registry, or renders Review (or handles its Confirm click), or completes;
\* it does not fail on the registry lookup.
C19_NoLookupError ==
    [][pc = "collect" =>
          \/ pending' \in DOMAIN REQUIRED_LEAD_DETAILS
          \/ phase' \in {"Review", "Completed"}
          \/ pc' = "confirm"]_vars

\* the first unanswered field is not in the registry and the run failed
C19_LookupFailed ==
    /\ pc = "idle"
    /\ phase = "Crashed"
    /\ unanswered_keys(missing_keys, collected_details)[1] \notin DOMAIN REQUIRED_LEAD_DETAILS

\* C20: the draft changes only in the Generate Proposal block, by a call of
\* generate_proposal that returned no error, and then it is the object the
\* model wrote; every other step, Confirm and its combine_responses
\* included, leaves it as it was.
C20_DraftWrittenByGenerate ==
    [][response' # response =>
          /\ pc = "generate"
          /\ call'.function = "generate_proposal"
          /\ call'.failed = None
          /\ response' \in Drafts]_vars

\* Confirm combined a final response that differs from the draft it kept
C20_DraftKeptByConfirm ==
    /\ pc = "idle"
    /\ phase = "Finalized"
    /\ response = [description |-> "Tax filing for an LLC"]
    /\ final_response # None
    /\ final_response # response

====
